---- MODULE Spec2Model ----
(***************************************************************************)
(* dynupdater: one command-line invocation at a time (refresh, txt-update, *)
(* txt-delete) against the dynu remote directory.  Every invocation runs   *)
(* sequentially: probe, read, conditional write.  The remote directory is  *)
(* the only state that survives an invocation.                             *)
(*                                                                         *)
(* Option<T> is a sequence of length at most one: None is <<>>, Some(x) is *)
(* <<x>>.  Result<T,E> is a record [ok, val, err].                         *)
(***************************************************************************)
EXTENDS Integers, Sequences, FiniteSets, TLC

\* ------------------------------------------------------------------ bounds
MaxRuns == 1        \* invocations of the program in one behaviour
MaxRecords == 2     \* records the domain holds before the first invocation
MaxAddrs == 2       \* addresses one DNS lookup of the domain returns

MaxTxtRuns == 2     \* txt-update / txt-delete invocations in a row

\* ------------------------------------------------------------- Option / Result
None == <<>>
Some(x) == <<x>>
is_some(o) == o # <<>>
is_none(o) == o = <<>>
unwrap(o) == o[1]

Ok(v) == [ok |-> TRUE, val |-> <<v>>, err |-> <<>>]
Err(e) == [ok |-> FALSE, val |-> <<>>, err |-> e]

\* ------------------------------------------------------------- input values
Commands == {"refresh", "txt-update", "txt-delete"}
DomainNames == {"example.com", "missing.org"}
Keys == {"k", "K"}
Values == {"v2"}
Ttls == {60, 120}

\* Outcome of one HTTP exchange with the remote directory: a success status,
\* a non-success status, or a request that did not complete.
Outcomes == {"ok", "status", "transport"}

\* A call that decodes the body of a success response (response.json()?) can
\* also meet a body it cannot decode.
DecodedOutcomes == Outcomes \cup {"undecodable"}

\* Outcome of one request to the public-address service (ipify).
ProbeOutcomes(fam) ==
  IF fam = "V4"
    THEN {[ok |-> FALSE, text |-> ""], [ok |-> TRUE, text |-> "203.0.113.9"]}
    ELSE {[ok |-> FALSE, text |-> ""], [ok |-> TRUE, text |-> "2001:db8::1"]}

\* std::net::IpAddr values a lookup of the domain may return.
IpAddrs ==
  { [fam |-> "V4", s |-> "203.0.113.5"],
    [fam |-> "V4", s |-> "203.0.113.9"],
    [fam |-> "V6", s |-> "2001:db8::1"] }

SeqsUpTo(S, n) == UNION { [1..k -> S] : k \in 0..n }

\* Outcome of dns_lookup::lookup_host(domain).
LookupOutcomes ==
  {[ok |-> FALSE, addrs |-> <<>>]}
    \cup { [ok |-> TRUE, addrs |-> l] : l \in SeqsUpTo(IpAddrs, MaxAddrs) }

\* ------------------------------------------------------------- remote data
DomainDTO(id, name, a4, a6) ==
  [id |-> id, name |-> name,
   ipv4_address |-> a4, ipv6_address |-> a6,
   ipv4 |-> is_some(a4), ipv6 |-> is_some(a6)]

\* The account's domains as the remote lists them (identities assigned).
InitDomains ==
  << DomainDTO(Some(7), "other.net", Some("198.51.100.1"), None),
     DomainDTO(Some(8), "example.com", Some("203.0.113.5"), None) >>

RecordTypes == {"TXT", "A", "SOA"}

RecordDTO(type, id, node_name, ttl, text_data) ==
  [recordType |-> type, id |-> id, node_name |-> node_name,
   ttl |-> ttl, text_data |-> text_data]

\* A listing the remote may hold for example.com before the first invocation:
\* position i carries identity 10 + i.
InitListing(shape) ==
  [i \in 1..Len(shape) |->
     RecordDTO(shape[i][1], Some(10 + i), shape[i][2], 300,
               IF shape[i][1] = "TXT" THEN "v1" ELSE "")]

InitListings ==
  { InitListing(shape) : shape \in SeqsUpTo(RecordTypes \X Keys, MaxRecords) }

\* default_value of --ttl
DefaultTtl == 120

FirstFreshId == 20

\* ------------------------------------------------------------- netutils.rs
\* ip(): the response text when the request completes, None otherwise.
ip(outcome) == IF outcome.ok THEN Some(outcome.text) ELSE None

to_string(addr) == addr.s

RECURSIVE scan_resolved(_, _, _, _)
scan_resolved(resolved, i, v4, v6) ==
  IF i > Len(resolved) THEN [v4 |-> v4, v6 |-> v6]
  ELSE IF resolved[i].fam = "V4"
    THEN scan_resolved(resolved, i + 1,
                       IF is_none(v4) THEN Some(to_string(resolved[i])) ELSE v4,
                       v6)
    ELSE scan_resolved(resolved, i + 1, v4,
                       IF is_none(v6) THEN Some(to_string(resolved[i])) ELSE v6)

\* public_ip_of(): a failed lookup is replaced by the empty list.
public_ip_of(lookup) ==
  LET resolved == IF lookup.ok THEN lookup.addrs ELSE <<>> IN
  IF resolved = <<>>
    THEN Ok([v4 |-> None, v6 |-> None])
    ELSE Ok(scan_resolved(resolved, 1, None, None))

\* ------------------------------------------------------------- dynu.rs
\* txt_record forgetting the ttl it is given (the command line's default).
txt_record_default_ttl(node_name, text_data, ttl, id) ==
  RecordDTO("TXT", None, node_name, DefaultTtl, text_data)

\* RecordDTO::txt_record as dynu.rs defines it: the identity is always None.
\* (main.rs passes a fourth argument, which the definition does not take.)
txt_record(node_name, text_data, ttl, id) ==
  RecordDTO("TXT", None, node_name, ttl, text_data)

\* RecordDTO::id
id(record) == record.id

\* The entry a call leaves in the log of requests sent to the remote.
Call(op, domain_id, record_id, body, outcome) ==
  [op |-> op, domain_id |-> domain_id, record_id |-> record_id,
   body |-> body, outcome |-> outcome]

ClientError(op, outcome) == [tag |-> "ClientError", msg |-> <<op, outcome>>]

\* DynuClient::get_domains
get_domains(domains, outcome) ==
  IF outcome = "ok" THEN Ok([domains |-> domains])
  ELSE Err(ClientError("get_domains", outcome))

DomainWithId(domains, did) ==
  IF \E i \in 1..Len(domains) : domains[i].id = Some(did)
    THEN Some(domains[CHOOSE i \in 1..Len(domains) : domains[i].id = Some(did)])
    ELSE None

\* get_domain treating a non-success status the way get_domains does.
get_domain_status_is_error(domains, did, outcome) ==
  IF outcome = "ok" THEN Ok(DomainWithId(domains, did))
  ELSE Err(ClientError("get_domain", outcome))

\* DynuClient::get_domain: a non-success status is Ok(None); a request that
\* does not complete is an error.
get_domain(domains, did, outcome) ==
  IF outcome = "transport" THEN Err(ClientError("get_domain", outcome))
  ELSE IF outcome = "status" THEN Ok(None)
  ELSE IF outcome = "undecodable" THEN Err(ClientError("get_domain", outcome))
  ELSE Ok(DomainWithId(domains, did))

\* DynuClient::update_domain
update_domain(outcome) ==
  IF outcome = "ok" THEN Ok(<<>>) ELSE Err(ClientError("update_domain", outcome))

\* DynuClient::get_records
get_records(listing, outcome) ==
  IF outcome = "ok" THEN Ok([dns_records |-> listing])
  ELSE Err(ClientError("get_records", outcome))

\* DynuClient::delete_record
delete_record(outcome) ==
  IF outcome = "ok" THEN Ok(<<>>) ELSE Err(ClientError("delete_record", outcome))

\* DynuClient::create_record
create_record(new_id, outcome) ==
  IF outcome = "ok" THEN Ok(new_id) ELSE Err(ClientError("create_record", outcome))

\* DynuClient::update_record
update_record(outcome) ==
  IF outcome = "ok" THEN Ok(<<>>) ELSE Err(ClientError("update_record", outcome))

\* ---- what the remote does with a request it accepts (it answered with a
\* success status, whether or not the client could decode the answer)
Accepted(outcome) == outcome \in {"ok", "undecodable"}

RemoteUpdateDomain(domains, dto) ==
  [i \in 1..Len(domains) |-> IF domains[i].id = dto.id THEN dto ELSE domains[i]]

RemoteCreateRecord(listing, record, new_id) ==
  Append(listing, [record EXCEPT !.id = Some(new_id)])

RemoteUpdateRecord(listing, rid, record) ==
  [i \in 1..Len(listing) |->
     IF listing[i].id = Some(rid) THEN [record EXCEPT !.id = Some(rid)]
     ELSE listing[i]]

RemoteDeleteRecord(listing, rid) ==
  SelectSeq(listing, LAMBDA r : r.id # Some(rid))

\* ------------------------------------------------------------- main.rs
\* find returning the last accepted element.
find_last(s, hits) ==
  IF hits = {} THEN None
  ELSE Some(s[CHOOSE i \in hits : \A j \in hits : j <= i])

\* Iterator::find: the first element the closure accepts (hits: the positions
\* it accepts).
find(s, hits) ==
  IF hits = {} THEN None
  ELSE Some(s[CHOOSE i \in hits : \A j \in hits : i <= j])

\* the closure with the comparison inverted
domain_differs(d, domain) == d.name # domain

\* the closure |d| d.name == domain
domain_matches(d, domain) == d.name = domain

\* the closure matching a record of any kind by its node_name
any_record_matches(r, name) == r.node_name = name

\* the closure matching a TxtRecord whose node_name == name
txt_matches(r, name) ==
  IF r.recordType = "TXT" THEN r.node_name = name ELSE FALSE

\* the comparison with the second operand mistyped
ips_identical_typo(resolved, ipv4, ipv6) == resolved.v4 = ipv4 /\ resolved.v6 = ipv4

\* the comparison deciding that nothing has to be updated
ips_identical(resolved, ipv4, ipv6) == resolved.v4 = ipv4 /\ resolved.v6 = ipv6

\* the assignments with the IPv6 flag derived from the IPv4 address
set_addresses_wrong_flag(domain_dto, ipv4, ipv6) ==
  [domain_dto EXCEPT !.ipv4 = is_some(ipv4), !.ipv6 = is_some(ipv4),
                     !.ipv4_address = ipv4, !.ipv6_address = ipv6]

\* the four assignments to domain_dto before update_domain
set_addresses(domain_dto, ipv4, ipv6) ==
  [domain_dto EXCEPT !.ipv4 = is_some(ipv4), !.ipv6 = is_some(ipv6),
                     !.ipv4_address = ipv4, !.ipv6_address = ipv6]

DomainNotFound(domain) ==
  [tag |-> "MsgError", msg |-> <<"domain cannot be found in dynu", domain>>]

RecordNotFound(name, domain_name) ==
  [tag |-> "MsgError", msg |-> <<"does not exist", name, domain_name>>]

Success == [tag |-> "Ok", msg |-> <<>>]
Panic == [tag |-> "Panic", msg |-> <<>>]
Running == [tag |-> "Running", msg |-> <<>>]

NoArgs == [domain |-> "", name |-> "", value |-> "", ttl |-> 0]

\* The arguments each subcommand takes.
ArgsOf(c) ==
  IF c = "refresh"
    THEN { [NoArgs EXCEPT !.domain = d] : d \in DomainNames }
  ELSE IF c = "txt-delete"
    THEN { [NoArgs EXCEPT !.domain = d, !.name = n] : d \in DomainNames, n \in Keys }
  ELSE { [domain |-> d, name |-> n, value |-> v, ttl |-> t] :
           d \in DomainNames, n \in Keys, v \in Values, t \in Ttls }

VARIABLES
  pc,             \* position of the running invocation
  runs,           \* invocations started so far
  cmd, args,      \* the subcommand and its arguments
  remoteDomains,  \* the remote directory: the account's domains, in listing order
  remoteRecords,  \* the remote directory: domain identity -> records, in listing order
  nextId,         \* the identity the remote assigns to the next created record
  calls,          \* requests this invocation sent to the remote directory
  probes,         \* requests this invocation sent to the network probe
  result,         \* what the invocation returned
  ipv4, ipv6,     \* refresh: detected addresses
  resolved,       \* refresh: addresses the domain resolves to
  domain_dto,     \* the domain find_domain_id returned
  records,        \* the record listing get_records returned
  existing,       \* maybe_existing_record
  before          \* the remote directory as it was when the invocation started

vars == <<pc, runs, cmd, args, remoteDomains, remoteRecords, nextId, calls,
          probes, result, ipv4, ipv6, resolved, domain_dto, records, existing,
          before>>

remote == <<remoteDomains, remoteRecords, nextId>>
locals == <<ipv4, ipv6, resolved, domain_dto, records, existing, before>>

Init ==
  /\ pc = "idle"
  /\ runs = 0
  /\ cmd = ""
  /\ args = NoArgs
  /\ remoteDomains = InitDomains
  /\ \E l \in InitListings :
       remoteRecords = [d \in {7, 8} |->
          IF d = 8 THEN l
          ELSE << RecordDTO("TXT", Some(70), "k", 300, "v1") >>]
  /\ nextId = FirstFreshId
  /\ calls = <<>>
  /\ probes = <<>>
  /\ result = Running
  /\ ipv4 = None /\ ipv6 = None
  /\ resolved = [v4 |-> None, v6 |-> None]
  /\ domain_dto = None
  /\ records = None
  /\ existing = None
  /\ before = <<remoteDomains, remoteRecords>>

\* return from the invocation
Return(r) == pc' = "done" /\ result' = r

\* main(): dispatch on the subcommand (the API key is present).
main ==
  /\ pc = "idle"
  /\ runs < MaxRuns
  /\ runs' = runs + 1
  /\ \E c \in Commands : \E a \in ArgsOf(c) :
       /\ cmd' = c
       /\ args' = a
       /\ pc' = IF c = "refresh" THEN "ip_v4" ELSE "find_domain_id"
  /\ UNCHANGED <<remote, calls, probes, result, locals>>

\* main() has returned: the process exits and nothing but the remote directory
\* is carried over to the next invocation.
exit ==
  /\ pc = "done"
  /\ pc' = "idle"
  /\ cmd' = ""
  /\ args' = NoArgs
  /\ calls' = <<>>
  /\ probes' = <<>>
  /\ result' = Running
  /\ ipv4' = None /\ ipv6' = None
  /\ resolved' = [v4 |-> None, v6 |-> None]
  /\ domain_dto' = None
  /\ records' = None
  /\ existing' = None
  /\ before' = <<remoteDomains, remoteRecords>>
  /\ UNCHANGED <<runs, remote>>

\* refresh: let ipv4 = ip(IP::V4)
refresh_ip_v4 ==
  /\ pc = "ip_v4"
  /\ \E o \in ProbeOutcomes("V4") :
       /\ ipv4' = ip(o)
       /\ probes' = Append(probes, [what |-> "V4", ok |-> o.ok])
  /\ pc' = "ip_v6"
  /\ UNCHANGED <<runs, cmd, args, remote, calls, result, ipv6, resolved,
                 domain_dto, records, existing, before>>

\* refresh: let ipv6 = ip(IP::V6)
refresh_ip_v6 ==
  /\ pc = "ip_v6"
  /\ \E o \in ProbeOutcomes("V6") :
       /\ ipv6' = ip(o)
       /\ probes' = Append(probes, [what |-> "V6", ok |-> o.ok])
  /\ pc' = "public_ip_of"
  /\ UNCHANGED <<runs, cmd, args, remote, calls, result, ipv4, resolved,
                 domain_dto, records, existing, before>>

\* refresh: let resolved = public_ip_of(domain)?; and the comparison
refresh_public_ip_of ==
  /\ pc = "public_ip_of"
  /\ \E l \in LookupOutcomes :
       LET r == public_ip_of(l) IN
       /\ probes' = Append(probes, [what |-> "lookup", ok |-> l.ok])
       /\ IF ~r.ok
            THEN /\ Return([tag |-> "IOError", msg |-> <<>>])
                 /\ UNCHANGED resolved
            ELSE /\ resolved' = unwrap(r.val)
                 /\ IF ips_identical(unwrap(r.val), ipv4, ipv6)
                      THEN Return(Success)
                      ELSE pc' = "find_domain_id" /\ UNCHANGED result
  /\ UNCHANGED <<runs, cmd, args, remote, calls, ipv4, ipv6, domain_dto, records,
                 existing, before>>

\* find_domain_id, called first by txt_update and txt_delete and by refresh
\* once the addresses differ.
find_domain_id ==
  /\ pc = "find_domain_id"
  /\ \E o \in DecodedOutcomes :
       LET body == get_domains(remoteDomains, o) IN
       /\ calls' = Append(calls, Call("get_domains", None, None, None, o))
       /\ IF ~body.ok
            THEN Return(body.err) /\ UNCHANGED domain_dto
            ELSE LET domains == unwrap(body.val).domains
                     maybe_domain ==
                       find(domains, { i \in 1..Len(domains) :
                                         domain_matches(domains[i], args.domain) }) IN
                 IF is_none(maybe_domain)
                   THEN Return(DomainNotFound(args.domain)) /\ UNCHANGED domain_dto
                   ELSE /\ domain_dto' = maybe_domain
                        /\ pc' = IF cmd = "refresh" THEN "update_domain"
                                 ELSE "get_records"
                        /\ UNCHANGED result
  /\ UNCHANGED <<runs, cmd, args, remote, probes, ipv4, ipv6, resolved, records,
                 existing, before>>

\* refresh: set the address fields and flags, then update_domain(&domain_dto)?
refresh_update_domain ==
  /\ pc = "update_domain"
  /\ cmd = "refresh"
  /\ LET dto == set_addresses(unwrap(domain_dto), ipv4, ipv6) IN
     /\ domain_dto' = Some(dto)
     /\ IF is_none(dto.id)
          THEN Return(Panic) /\ UNCHANGED <<calls, remoteDomains>>
          ELSE \E o \in Outcomes :
                 LET r == update_domain(o) IN
                 /\ calls' = Append(calls,
                      Call("update_domain", dto.id, None, Some(dto), o))
                 /\ IF r.ok
                      THEN /\ remoteDomains' = RemoteUpdateDomain(remoteDomains, dto)
                           /\ pc' = "get_domain"
                           /\ UNCHANGED result
                      ELSE Return(r.err) /\ UNCHANGED remoteDomains
  /\ UNCHANGED <<runs, cmd, args, remoteRecords, nextId, probes, ipv4, ipv6,
                 resolved, records, existing, before>>

\* refresh: let result = get_domain(domain_dto.id.unwrap())?; Ok(())
refresh_get_domain ==
  /\ pc = "get_domain"
  /\ cmd = "refresh"
  /\ \E o \in DecodedOutcomes :
       LET did == unwrap(unwrap(domain_dto).id)
           r == get_domain(remoteDomains, did, o) IN
       /\ calls' = Append(calls, Call("get_domain", Some(did), None, None, o))
       /\ IF r.ok THEN Return(Success) ELSE Return(r.err)
  /\ UNCHANGED <<runs, cmd, args, remote, probes, locals>>

\* txt_update / txt_delete: get_records(domain_id)? and the scan for the record
get_records_and_scan ==
  /\ pc = "get_records"
  /\ LET dto == unwrap(domain_dto) IN
     IF is_none(dto.id)
       THEN Return(Panic) /\ UNCHANGED <<calls, records, existing>>
       ELSE \E o \in DecodedOutcomes :
         LET domain_id == unwrap(dto.id)
             listed == get_records(remoteRecords[domain_id], o) IN
         /\ calls' = Append(calls, Call("get_records", Some(domain_id), None, None, o))
         /\ IF ~listed.ok
              THEN Return(listed.err) /\ UNCHANGED <<records, existing>>
              ELSE LET dns_records == unwrap(listed.val).dns_records
                       maybe_existing_record ==
                         find(dns_records, { i \in 1..Len(dns_records) :
                                 txt_matches(dns_records[i], args.name) }) IN
                   /\ records' = Some(dns_records)
                   /\ existing' = maybe_existing_record
                   /\ IF cmd = "txt-update"
                        THEN /\ pc' = IF is_none(maybe_existing_record)
                                        THEN "create_record" ELSE "update_record"
                             /\ UNCHANGED result
                        ELSE IF is_none(maybe_existing_record)
                          THEN Return(RecordNotFound(args.name, args.domain))
                          ELSE pc' = "delete_record" /\ UNCHANGED result
  /\ UNCHANGED <<runs, cmd, args, remote, probes, ipv4, ipv6, resolved, domain_dto,
                 before>>

\* txt_update, no existing record: txt_record(name, value, ttl, None) and
\* create_record(domain_id, &txt_record)?
txt_update_create_record ==
  /\ pc = "create_record"
  /\ \E o \in DecodedOutcomes :
       LET domain_id == unwrap(unwrap(domain_dto).id)
           record == txt_record(args.name, args.value, args.ttl, None)
           r == create_record(nextId, o) IN
       /\ calls' = Append(calls,
            Call("create_record", Some(domain_id), None, Some(record), o))
       /\ IF Accepted(o)
            THEN /\ remoteRecords' = [remoteRecords EXCEPT ![domain_id] =
                        RemoteCreateRecord(@, record, nextId)]
                 /\ nextId' = nextId + 1
            ELSE UNCHANGED <<remoteRecords, nextId>>
       /\ IF r.ok THEN Return(Success) ELSE Return(r.err)
  /\ UNCHANGED <<runs, cmd, args, remoteDomains, probes, locals>>

\* txt_update, existing record: txt_record(name, value, ttl, Some(record_id))
\* and update_record(domain_id, &txt_record)?, whose URL takes
\* record_dto.id().unwrap()
txt_update_update_record ==
  /\ pc = "update_record"
  /\ LET domain_id == unwrap(unwrap(domain_dto).id)
         record_id == unwrap(id(unwrap(existing)))
         record == txt_record(args.name, args.value, args.ttl, Some(record_id)) IN
     IF is_none(id(record))
       THEN Return(Panic) /\ UNCHANGED <<calls, remoteRecords>>
       ELSE \E o \in Outcomes :
         LET r == update_record(o) IN
         /\ calls' = Append(calls,
              Call("update_record", Some(domain_id), id(record), Some(record), o))
         /\ IF r.ok
              THEN /\ remoteRecords' = [remoteRecords EXCEPT ![domain_id] =
                          RemoteUpdateRecord(@, unwrap(id(record)), record)]
                   /\ Return(Success)
              ELSE Return(r.err) /\ UNCHANGED remoteRecords
  /\ UNCHANGED <<runs, cmd, args, remoteDomains, nextId, probes, locals>>

\* txt_delete: delete_record(domain_id, existing_record.id().unwrap())?
txt_delete_delete_record ==
  /\ pc = "delete_record"
  /\ LET domain_id == unwrap(unwrap(domain_dto).id)
         record_id == unwrap(id(unwrap(existing))) IN
     \E o \in Outcomes :
       LET r == delete_record(o) IN
       /\ calls' = Append(calls,
            Call("delete_record", Some(domain_id), Some(record_id), None, o))
       /\ IF r.ok
            THEN /\ remoteRecords' = [remoteRecords EXCEPT ![domain_id] =
                        RemoteDeleteRecord(@, record_id)]
                 /\ pc' = "delete_record_again"
                 /\ UNCHANGED result
            ELSE Return(r.err) /\ UNCHANGED remoteRecords
  /\ UNCHANGED <<runs, cmd, args, remoteDomains, nextId, probes, locals>>

\* txt_delete, last line: Ok(delete_record(domain_id, existing_record.id().unwrap())?)
\* The record is gone by now; what the remote answers is its own choice.
txt_delete_delete_record_again ==
  /\ pc = "delete_record_again"
  /\ LET domain_id == unwrap(unwrap(domain_dto).id)
         record_id == unwrap(id(unwrap(existing))) IN
     \E o \in Outcomes :
       LET r == delete_record(o) IN
       /\ calls' = Append(calls,
            Call("delete_record", Some(domain_id), Some(record_id), None, o))
       /\ IF r.ok
            THEN /\ remoteRecords' = [remoteRecords EXCEPT ![domain_id] =
                        RemoteDeleteRecord(@, record_id)]
                 /\ Return(Success)
            ELSE Return(r.err) /\ UNCHANGED remoteRecords
  /\ UNCHANGED <<runs, cmd, args, remoteDomains, nextId, probes, locals>>

Next ==
  \/ main
  \/ exit
  \/ refresh_ip_v4
  \/ refresh_ip_v6
  \/ refresh_public_ip_of
  \/ find_domain_id
  \/ refresh_update_domain
  \/ refresh_get_domain
  \/ get_records_and_scan
  \/ txt_update_create_record
  \/ txt_update_update_record
  \/ txt_delete_delete_record
  \/ txt_delete_delete_record_again

Spec == Init /\ [][Next]_vars


\* ---- txt-update and txt-delete invocations run one after another, from a
\* domain that holds at most one free-text record per key
UniqueTxtKeys(listing) ==
  \A i, j \in 1..Len(listing) :
    (listing[i].recordType = "TXT" /\ listing[j].recordType = "TXT"
       /\ listing[i].node_name = listing[j].node_name) => i = j

InitTxt == Init /\ UniqueTxtKeys(remoteRecords[8])

\* main(): dispatch on UpdateTxtRecord or DeleteTxtRecord.
main_txt ==
  /\ pc = "idle"
  /\ runs < MaxTxtRuns
  /\ runs' = runs + 1
  /\ \E c \in {"txt-update", "txt-delete"} : \E a \in ArgsOf(c) :
       /\ cmd' = c
       /\ args' = a
       /\ pc' = "find_domain_id"
  /\ UNCHANGED <<remote, calls, probes, result, locals>>

NextTxt ==
  \/ main_txt
  \/ exit
  \/ find_domain_id
  \/ get_records_and_scan
  \/ txt_update_create_record
  \/ txt_update_update_record
  \/ txt_delete_delete_record
  \/ txt_delete_delete_record_again

SpecTxt == InitTxt /\ [][NextTxt]_vars

\* ======================================================================
\* Properties.  The vocabulary below is stated over what the invocation
\* observed and sent, independently of the operators the actions use.
\* ======================================================================
Finished(c) == pc = "done" /\ cmd = c

CallsTo(op) == SelectSeq(calls, LAMBDA c : c.op = op)

WriteOps == {"update_domain", "create_record", "update_record", "delete_record"}
Writes == SelectSeq(calls, LAMBDA c : c.op \in WriteOps)

RemoteUnchanged == before = <<remoteDomains, remoteRecords>>

\* the domain listing was returned to the invocation
DomainsListed == \E i \in 1..Len(calls) :
                    calls[i].op = "get_domains" /\ calls[i].outcome = "ok"

NamedDomains == { i \in 1..Len(before[1]) : before[1][i].name = args.domain }
DomainExists == NamedDomains # {}
NamedDomainId == before[1][CHOOSE i \in NamedDomains : TRUE].id

\* refresh has probed both families and resolved the domain
Probed == cmd = "refresh" /\ Len(probes) = 3
PairsEqual == resolved.v4 = ipv4 /\ resolved.v6 = ipv6

\* positions of the free-text records with the requested key in the listing
TxtPositions(listing) ==
  { i \in 1..Len(listing) :
      listing[i].recordType = "TXT" /\ listing[i].node_name = args.name }
FirstTxt(listing) ==
  listing[CHOOSE i \in TxtPositions(listing) :
            \A j \in TxtPositions(listing) : i <= j]

KeyListed == is_some(records) /\ TxtPositions(unwrap(records)) # {}
KeyNotListed == is_some(records) /\ TxtPositions(unwrap(records)) = {}

\* C1: refresh, when the detected pair equals the resolved pair (absent equal
\* to absent, each family on its own), sends nothing to the remote directory
\* and completes successfully.
C1_NoOpRefresh ==
  (Probed /\ PairsEqual) =>
     /\ calls = <<>>
     /\ pc = "done"
     /\ result = Success
     /\ RemoteUnchanged

C1_Witness ==
  /\ Finished("refresh") /\ Probed /\ PairsEqual
  /\ ipv4 = Some("203.0.113.9") /\ ipv6 = None
  /\ result = Success

\* C2: refresh, when the pairs differ in some family and the listed domains
\* contain the domain, issues exactly one update_domain call, on that domain's
\* identity, whose payload has per family the detected address and the enable
\* flag true when it is present, no address and the flag false when absent.
C2_SingleUpdateWithDerivedFlags ==
  (Finished("refresh") /\ Probed /\ ~PairsEqual /\ DomainsListed /\ DomainExists) =>
     /\ Len(CallsTo("update_domain")) = 1
     /\ Len(Writes) = 1
     /\ LET u == CallsTo("update_domain")[1]
            dto == unwrap(u.body) IN
        /\ u.domain_id = NamedDomainId
        /\ dto.id = NamedDomainId
        /\ dto.name = args.domain
        /\ dto.ipv4_address = ipv4
        /\ dto.ipv6_address = ipv6
        /\ dto.ipv4 = (ipv4 # None)
        /\ dto.ipv6 = (ipv6 # None)

C2_Witness ==
  /\ Finished("refresh") /\ result = Success
  /\ ipv4 = Some("203.0.113.9") /\ ipv6 = None
  /\ resolved = [v4 |-> Some("203.0.113.5"), v6 |-> None]
  /\ Len(CallsTo("update_domain")) = 1
  /\ LET dto == unwrap(CallsTo("update_domain")[1].body) IN
     /\ dto.ipv4_address = Some("203.0.113.9") /\ dto.ipv4 = TRUE
     /\ dto.ipv6_address = None /\ dto.ipv6 = FALSE

\* C3: deleteText, when the record listing contains a free-text record with
\* the key, issues exactly one delete call, on that record's identity, and
\* reports success when that call succeeds.
C3_SingleDelete ==
  (Finished("txt-delete") /\ KeyListed) =>
     /\ Len(CallsTo("delete_record")) = 1
     /\ CallsTo("delete_record")[1].record_id = FirstTxt(unwrap(records)).id
     /\ (CallsTo("delete_record")[1].outcome = "ok" => result = Success)

\* C4: upsertText, when the record listing contains a free-text record with
\* identity I and the key, issues exactly one update call on identity I that
\* carries the key, value and ttl, the record sent carrying identity I, and
\* issues no create call.
C4_UpdateCarriesIdentity ==
  (Finished("txt-update") /\ KeyListed) =>
     /\ Len(CallsTo("update_record")) = 1
     /\ Len(CallsTo("create_record")) = 0
     /\ LET u == CallsTo("update_record")[1]
            I == FirstTxt(unwrap(records)).id IN
        /\ u.record_id = I
        /\ unwrap(u.body).id = I
        /\ unwrap(u.body).node_name = args.name
        /\ unwrap(u.body).text_data = args.value
        /\ unwrap(u.body).ttl = args.ttl

\* C5: upsertText, when the record listing contains no free-text record with
\* the key, issues exactly one create call carrying key, value and ttl with
\* the identity unset, and no update or delete call.
C5_CreateOnAbsence ==
  (Finished("txt-update") /\ KeyNotListed) =>
     /\ Len(CallsTo("create_record")) = 1
     /\ Len(Writes) = 1
     /\ LET c == CallsTo("create_record")[1] IN
        /\ c.domain_id = NamedDomainId
        /\ c.record_id = None
        /\ unwrap(c.body) = [recordType |-> "TXT", id |-> None,
                             node_name |-> args.name, ttl |-> args.ttl,
                             text_data |-> args.value]

C5_Witness ==
  /\ Finished("txt-update") /\ KeyNotListed /\ result = Success
  /\ args.ttl = 60
  /\ Len(unwrap(records)) = 2
  /\ Len(remoteRecords[8]) = 3
  /\ remoteRecords[8][3].node_name = args.name

\* C6: deleteText, when the record listing contains no free-text record with
\* the key, fails with the record-not-found error, issues no delete call and
\* no other write, and leaves the remote directory unchanged.
C6_DeleteRequiresExistence ==
  (cmd = "txt-delete" /\ KeyNotListed) =>
     /\ pc = "done"
     /\ result = RecordNotFound(args.name, args.domain)
     /\ Writes = <<>>
     /\ RemoteUnchanged

C6_Witness ==
  /\ Finished("txt-delete") /\ KeyNotListed
  /\ \E i \in 1..Len(unwrap(records)) : unwrap(records)[i].node_name = args.name
  /\ result.tag = "MsgError"

\* C7: when a request of the network probe fails (detection of the public
\* IPv4 or IPv6, or resolution of the domain), refresh returns an error and
\* issues no domain update.
C7_ProbeFailureSurfaces ==
  (Finished("refresh") /\ \E i \in 1..Len(probes) : ~probes[i].ok) =>
     /\ result.tag \notin {"Ok"}
     /\ CallsTo("update_domain") = <<>>

\* C8: when the listed domains contain no domain with the requested name,
\* upsertText, deleteText and refresh (pairs unequal) fail with the
\* domain-not-found error naming the domain, list no records, issue no create,
\* update or delete, and leave the remote directory unchanged.
C8_DomainNotFound ==
  (DomainsListed /\ ~DomainExists) =>
     /\ pc = "done"
     /\ result = [tag |-> "MsgError",
                  msg |-> <<"domain cannot be found in dynu", args.domain>>]
     /\ Len(calls) = 1
     /\ RemoteUnchanged

C8_Witness ==
  /\ Finished("refresh") /\ ~PairsEqual
  /\ DomainsListed /\ ~DomainExists
  /\ result.tag = "MsgError"

\* C9: the record upsertText and deleteText select is the first record in
\* listing order that is free-text and has exactly the requested key; every
\* update or delete sent targets that record's identity; records of another
\* kind or with a key differing in case are never selected, so with only such
\* records upsert goes on to create and delete reports not-found.
C9_FirstExactTxtMatch ==
  is_some(records) =>
     /\ existing = IF TxtPositions(unwrap(records)) = {} THEN None
                   ELSE Some(FirstTxt(unwrap(records)))
     /\ \A i \in 1..Len(calls) :
          calls[i].op \in {"update_record", "delete_record"} =>
            /\ TxtPositions(unwrap(records)) # {}
            /\ calls[i].record_id = FirstTxt(unwrap(records)).id
     /\ (TxtPositions(unwrap(records)) = {} /\ cmd = "txt-update") =>
          \/ pc = "create_record"
          \/ pc = "done" /\ Len(CallsTo("create_record")) = 1
     /\ (TxtPositions(unwrap(records)) = {} /\ cmd = "txt-delete") =>
          result.tag = "MsgError"

C9_Witness ==
  /\ Finished("txt-delete") /\ is_some(records)
  /\ Cardinality(TxtPositions(unwrap(records))) = 2
  /\ Len(CallsTo("delete_record")) > 0
  /\ CallsTo("delete_record")[1].record_id = Some(11)

\* C10 as stated: whenever the domain update call succeeded, refresh reports
\* success whatever the outcome of the read that follows.
C10_SuccessWhateverTheRead ==
  (Finished("refresh") /\ \E i \in 1..Len(calls) :
        calls[i].op = "update_domain" /\ calls[i].outcome = "ok") =>
     result = Success

\* C10 amended: get_domain returns absent on a non-success status but fails
\* when the request does not complete or the body cannot be decoded; after a
\* successful domain update refresh reports success exactly when the read
\* returned a domain or absent, and the read's error otherwise.
C10_SuccessUnlessReadErrors ==
  (Finished("refresh") /\ \E i \in 1..Len(calls) :
        calls[i].op = "update_domain" /\ calls[i].outcome = "ok") =>
     /\ Len(CallsTo("get_domain")) = 1
     /\ LET g == CallsTo("get_domain")[1] IN
        /\ g.outcome \in {"ok", "status"} => result = Success
        /\ g.outcome \in {"transport", "undecodable"} =>
             result = [tag |-> "ClientError", msg |-> <<"get_domain", g.outcome>>]

C10_Witness ==
  /\ Finished("refresh") /\ result = Success
  /\ Len(CallsTo("get_domain")) = 1
  /\ CallsTo("get_domain")[1].outcome = "status"

\* the records of example.com this invocation has no business with: every
\* record that is not a free-text record with the requested key
OtherRecords(listing) ==
  SelectSeq(listing, LAMBDA r : ~(r.recordType = "TXT" /\ r.node_name = args.name))

\* the listed record with the key got its identity from an earlier create
ListedKeyWasCreated ==
  KeyListed /\ unwrap(FirstTxt(unwrap(records)).id) >= FirstFreshId

\* first part of C11: the domain holds at most one free-text record per key
C11_AtMostOnePerKey == UniqueTxtKeys(remoteRecords[8])

\* second part of C11: an upsert that finds the record an earlier upsert
\* created updates it on its identity and creates nothing
C11_SecondUpsertUpdates ==
  (Finished("txt-update") /\ ListedKeyWasCreated) =>
     /\ Len(CallsTo("create_record")) = 0
     /\ Len(CallsTo("update_record")) = 1
     /\ CallsTo("update_record")[1].record_id = FirstTxt(unwrap(records)).id

\* third part of C11: the invocation leaves every other record as it was
C11_OtherKeysUntouched ==
  (cmd \in {"txt-update", "txt-delete"}) =>
     OtherRecords(remoteRecords[8]) = OtherRecords(before[2][8])

\* C11: from a domain with at most one free-text record per key, invocations
\* of upsertText and deleteText run one at a time keep at most one free-text
\* record per key; a second upsertText for a key issues an update on the
\* identity the first one was assigned and never a second create; records with
\* other keys are never modified.
C11_UniqueKeyPreserved ==
  /\ C11_AtMostOnePerKey
  /\ C11_SecondUpsertUpdates
  /\ C11_OtherKeysUntouched

====
